---- MODULE Spec2Model ----
(***************************************************************************)
(* Chat2Snack: the cart (current_order), the command dispatch loops        *)
(* (process_llm_response in app.py and chat2snack_controller.py, main_cli  *)
(* in chat2snack_controller.py), the 16-bit FPGA command encoder and the   *)
(* serial senders (send_to_fpga, test.py's send_16bit_command).            *)
(*                                                                         *)
(* Text is modelled at character level: a string is a sequence of          *)
(* one-character strings, so strip / lower / split / int are computed the  *)
(* way Python computes them.                                                *)
(***************************************************************************)
EXTENDS Integers, Sequences, FiniteSets, TLC

(***************************************************************************)
(* Bounds of the model.                                                    *)
(***************************************************************************)
\* longest instruction block (number of lines) fed to a dispatch loop
MaxBlockLen == 3

\* largest |delta| passed to update_order when it is exercised on its own
MaxDelta == 10

\* most chat turns of a session
MaxTurns == 2

\* most lines in one reply of the language model
MaxReplyLen == 2

\* most items with a non-zero quantity in the carts update_order is
\* exercised on
MaxNonZero == 2

(***************************************************************************)
(* Program constants.                                                      *)
(***************************************************************************)
DISPENSE_BIT_OFFSET == 15
MAX_QTY == 7
ACTUAL_COMMAND_TO_RUN == 65535
CLEAR_COMMAND == 0

W_burger == <<"b","u","r","g","e","r">>
W_fries == <<"f","r","i","e","s">>
W_soda == <<"s","o","d","a">>
W_ice_cream == <<"i","c","e","_","c","r","e","a","m">>
W_pizza == <<"p","i","z","z","a">>
W_icecream == <<"i","c","e","c","r","e","a","m">>
W_add == <<"a","d","d">>
W_remove == <<"r","e","m","o","v","e">>
W_dispense == <<"d","i","s","p","e","n","s","e">>
W_exit == <<"e","x","i","t">>

\* the keys of current_order, in insertion order
ItemOrder == <<W_burger, W_fries, W_soda, W_ice_cream, W_pizza>>

Items == {ItemOrder[i] : i \in 1..Len(ItemOrder)}

\* fault: the fries field one bit too low, overlapping the burger field
FOOD_BIT_OFFSETS_Overlap ==
  [f \in Items |->
     IF f = W_burger THEN 0
     ELSE IF f = W_fries THEN 2
     ELSE IF f = W_soda THEN 6
     ELSE IF f = W_ice_cream THEN 9
     ELSE 12]

FOOD_BIT_OFFSETS ==
  [f \in Items |->
     IF f = W_burger THEN 0
     ELSE IF f = W_fries THEN 3
     ELSE IF f = W_soda THEN 6
     ELSE IF f = W_ice_cream THEN 9
     ELSE 12]

\* the cart at session start
EmptyOrder == [f \in Items |-> 0]

(***************************************************************************)
(* Python string operations used by the dispatch loops.                    *)
(***************************************************************************)
Whitespace == {" ", "\t"}

QuoteChars == {"'", "\""}

UpperAlpha ==
  <<"A","B","C","D","E","F","G","H","I","J","K","L","M",
    "N","O","P","Q","R","S","T","U","V","W","X","Y","Z">>

LowerAlpha ==
  <<"a","b","c","d","e","f","g","h","i","j","k","l","m",
    "n","o","p","q","r","s","t","u","v","w","x","y","z">>

LowerChar(c) ==
  IF \E i \in 1..26 : UpperAlpha[i] = c
  THEN LowerAlpha[CHOOSE i \in 1..26 : UpperAlpha[i] = c]
  ELSE c

\* str.lower()
Lower(s) == [i \in 1..Len(s) |-> LowerChar(s[i])]

RECURSIVE LStrip(_, _)
LStrip(s, chars) ==
  IF s # <<>> /\ Head(s) \in chars THEN LStrip(Tail(s), chars) ELSE s

RECURSIVE RStrip(_, _)
RStrip(s, chars) ==
  IF s # <<>> /\ s[Len(s)] \in chars
  THEN RStrip(SubSeq(s, 1, Len(s) - 1), chars)
  ELSE s

\* str.strip(chars): drops every leading and trailing character of the set
Strip(s, chars) == RStrip(LStrip(s, chars), chars)

\* str.split() with no argument: the maximal runs of non-whitespace
RECURSIVE SplitFrom(_, _, _)
SplitFrom(s, cur, acc) ==
  IF s = <<>>
  THEN IF cur = <<>> THEN acc ELSE Append(acc, cur)
  ELSE IF Head(s) \in Whitespace
       THEN SplitFrom(Tail(s), <<>>, IF cur = <<>> THEN acc ELSE Append(acc, cur))
       ELSE SplitFrom(Tail(s), Append(cur, Head(s)), acc)

Split(s) == SplitFrom(s, <<>>, <<>>)

Digits == <<"0","1","2","3","4","5","6","7","8","9">>

IsDigit(c) == \E i \in 1..10 : Digits[i] = c

DigitVal(c) == (CHOOSE i \in 1..10 : Digits[i] = c) - 1

\* the digit part of an int() literal: digits, single underscores between them
ValidDigits(s) ==
  /\ s # <<>>
  /\ \A i \in 1..Len(s) :
       \/ IsDigit(s[i])
       \/ /\ s[i] = "_"
          /\ i > 1 /\ i < Len(s)
          /\ IsDigit(s[i - 1]) /\ IsDigit(s[i + 1])

RECURSIVE DigitsValue(_, _)
DigitsValue(s, acc) ==
  IF s = <<>> THEN acc
  ELSE IF Head(s) = "_" THEN DigitsValue(Tail(s), acc)
  ELSE DigitsValue(Tail(s), 10 * acc + DigitVal(Head(s)))

\* int(tok): ok = FALSE stands for ValueError
ParseInt(tok) ==
  LET signed == tok # <<>> /\ tok[1] \in {"+", "-"}
      body == IF signed THEN Tail(tok) ELSE tok
  IN IF ValidDigits(body)
     THEN [ok |-> TRUE,
           val |-> IF signed /\ tok[1] = "-"
                   THEN 0 - DigitsValue(body, 0)
                   ELSE DigitsValue(body, 0)]
     ELSE [ok |-> FALSE, val |-> 0]

(***************************************************************************)
(* Python integer operations used by the encoder and the senders.          *)
(***************************************************************************)
RECURSIVE Pow2(_)
Pow2(n) == IF n = 0 THEN 1 ELSE 2 * Pow2(n - 1)

\* a | b on non-negative integers
RECURSIVE BitOr(_, _)
BitOr(a, b) ==
  IF a = 0 THEN b
  ELSE IF b = 0 THEN a
  ELSE (IF a % 2 = 1 \/ b % 2 = 1 THEN 1 ELSE 0) + 2 * BitOr(a \div 2, b \div 2)

\* a << n
Shl(a, n) == a * Pow2(n)

\* a >> n
Shr(a, n) == a \div Pow2(n)

\* f"{command:016b}": binary digits, most significant first, zero-padded to 16
\* fault: the digits come out least significant first
RECURSIVE BinDigits_LsbFirst(_)
BinDigits_LsbFirst(n) ==
  IF n < 2 THEN <<Digits[n + 1]>>
  ELSE <<Digits[(n % 2) + 1]>> \o BinDigits_LsbFirst(n \div 2)

RECURSIVE BinDigits(_)
BinDigits(n) ==
  IF n < 2 THEN <<Digits[n + 1]>>
  ELSE Append(BinDigits(n \div 2), Digits[(n % 2) + 1])

RECURSIVE ZeroPad(_, _)
ZeroPad(s, width) == IF Len(s) >= width THEN s ELSE ZeroPad(<<"0">> \o s, width)

Format016b(n) == ZeroPad(BinDigits(n), 16)

(***************************************************************************)
(* The encoder: generate_fpga_command.                                     *)
(***************************************************************************)
\* app.py: the loop over order.items(), guarded by `food in FOOD_BIT_OFFSETS`
RECURSIVE App_pack(_, _, _)
App_pack(order, i, command) ==
  IF i > Len(ItemOrder) THEN command
  ELSE LET food == ItemOrder[i]
           qty == order[food]
       IN App_pack(order, i + 1,
            IF food \in DOMAIN FOOD_BIT_OFFSETS
            THEN BitOr(command, Shl(qty % 8, FOOD_BIT_OFFSETS[food]))
            ELSE command)

\* fault: `command = 1 << 15` in place of `command |= 1 << 15`
App_generate_fpga_command_Assign(order, dispense_now) ==
  LET packed == App_pack(order, 1, 0)
      command == IF dispense_now THEN Shl(1, DISPENSE_BIT_OFFSET) ELSE packed
  IN [dispense_now |-> dispense_now, command |-> command,
      binary |-> Format016b(command)]

App_generate_fpga_command(order, dispense_now) ==
  LET packed == App_pack(order, 1, 0)
      command == IF dispense_now
                 THEN BitOr(packed, Shl(1, DISPENSE_BIT_OFFSET))
                 ELSE packed
  IN [dispense_now |-> dispense_now, command |-> command,
      binary |-> Format016b(command)]

\* chat2snack_controller.py: the loop over current_order.items()
RECURSIVE Ctrl_pack(_, _, _)
Ctrl_pack(order, i, command) ==
  IF i > Len(ItemOrder) THEN command
  ELSE LET food == ItemOrder[i]
           qty == order[food]
           offset == FOOD_BIT_OFFSETS[food]
       IN Ctrl_pack(order, i + 1, BitOr(command, Shl(qty % 8, offset)))

Ctrl_generate_fpga_command(order, dispense_now) ==
  LET packed == Ctrl_pack(order, 1, 0)
      command == IF dispense_now
                 THEN BitOr(packed, Shl(1, DISPENSE_BIT_OFFSET))
                 ELSE packed
  IN [dispense_now |-> dispense_now, command |-> command,
      binary |-> Format016b(command)]

\* no generate_fpga_command call has returned yet
NoEnc == [dispense_now |-> FALSE, command |-> 0 - 1, binary |-> <<>>]

(***************************************************************************)
(* The mutator: update_order.  The result is the cart after the call and   *)
(* whether the call went on to display_current_order (the preview).        *)
(***************************************************************************)
\* fault: the upper clamp is missing
App_update_order_NoUpperClamp(order, food_item, quantity) ==
  IF food_item \notin DOMAIN order
  THEN [order |-> order, displayed |-> FALSE]
  ELSE LET new_qty == order[food_item] + quantity
       IN [order |->
             IF new_qty < 0 THEN [order EXCEPT ![food_item] = 0]
             ELSE [order EXCEPT ![food_item] = new_qty],
           displayed |-> TRUE]

\* fault: the `food_item not in order` guard is missing, so that
\* order.get(food_item, 0) + quantity is stored under a new key
App_update_order_NoItemCheck(order, food_item, quantity) ==
  LET old == IF food_item \in DOMAIN order THEN order[food_item] ELSE 0
      new_qty == old + quantity
      stored == IF new_qty > MAX_QTY THEN MAX_QTY
                ELSE IF new_qty < 0 THEN 0
                ELSE new_qty
  IN [order |-> [k \in DOMAIN order \cup {food_item} |->
                   IF k = food_item THEN stored ELSE order[k]],
      displayed |-> TRUE]

\* fault: the quantity is stored instead of added
App_update_order_Assign(order, food_item, quantity) ==
  IF food_item \notin DOMAIN order
  THEN [order |-> order, displayed |-> FALSE]
  ELSE LET new_qty == quantity
       IN [order |->
             IF new_qty > MAX_QTY THEN [order EXCEPT ![food_item] = MAX_QTY]
             ELSE IF new_qty < 0 THEN [order EXCEPT ![food_item] = 0]
             ELSE [order EXCEPT ![food_item] = new_qty],
           displayed |-> TRUE]

App_update_order(order, food_item, quantity) ==
  IF food_item \notin DOMAIN order
  THEN [order |-> order, displayed |-> FALSE]
  ELSE LET new_qty == order[food_item] + quantity
       IN [order |->
             IF new_qty > MAX_QTY THEN [order EXCEPT ![food_item] = MAX_QTY]
             ELSE IF new_qty < 0 THEN [order EXCEPT ![food_item] = 0]
             ELSE [order EXCEPT ![food_item] = new_qty],
           displayed |-> TRUE]

\* fault: the `food_item not in current_order` guard is missing, so that
\* current_order.get(food_item, 0) + quantity is stored under a new key
Ctrl_update_order_NoItemCheck(order, food_item, quantity) ==
  LET old == IF food_item \in DOMAIN order THEN order[food_item] ELSE 0
      new_qty == old + quantity
      stored == IF new_qty > MAX_QTY THEN MAX_QTY
                ELSE IF new_qty < 0 THEN 0
                ELSE new_qty
  IN [order |-> [k \in DOMAIN order \cup {food_item} |->
                   IF k = food_item THEN stored ELSE order[k]],
      displayed |-> TRUE]

\* fault: the lower clamp is missing
Ctrl_update_order_NoLowerClamp(order, food_item, quantity) ==
  IF food_item \notin DOMAIN order
  THEN [order |-> order, displayed |-> FALSE]
  ELSE LET new_qty == order[food_item] + quantity
       IN [order |->
             IF new_qty > MAX_QTY THEN [order EXCEPT ![food_item] = MAX_QTY]
             ELSE [order EXCEPT ![food_item] = new_qty],
           displayed |-> TRUE]

Ctrl_update_order(order, food_item, quantity) ==
  IF food_item \notin DOMAIN order
  THEN [order |-> order, displayed |-> FALSE]
  ELSE LET new_qty == order[food_item] + quantity
       IN [order |->
             IF new_qty > MAX_QTY THEN [order EXCEPT ![food_item] = MAX_QTY]
             ELSE IF new_qty < 0 THEN [order EXCEPT ![food_item] = 0]
             ELSE [order EXCEPT ![food_item] = new_qty],
           displayed |-> TRUE]

(***************************************************************************)
(* The transport.  pyserial is outside the repository: what a send can do  *)
(* is one of these outcomes, each with the exception class it raises.      *)
(***************************************************************************)
TransportOutcomes == {"ok", "open_failed", "write_failed", "write_timeout"}

ExceptionOf(outcome) ==
  IF outcome = "ok" THEN "none"
  ELSE IF outcome = "write_timeout" THEN "SerialTimeoutException"
  ELSE "SerialException"

\* SerialTimeoutException is a subclass of SerialException
IsSerialException(exc) == exc \in {"SerialException", "SerialTimeoutException"}

\* every exception class derives from Exception
IsException(exc) == exc # "none"

\* the bytes reach ser.write unless the port could not be opened
App_send_to_fpga(command_int, outcome) ==
  [cmd |-> command_int,
   outcome |-> outcome,
   bytes |-> IF outcome = "open_failed" THEN <<>>
             ELSE <<Shr(command_int, 8) % 256, command_int % 256>>,
   \* except serial.SerialException / except Exception
   raised |-> /\ outcome # "ok"
              /\ ~ IsSerialException(ExceptionOf(outcome))
              /\ ~ IsException(ExceptionOf(outcome))]

\* fault: no except clause around the port
Ctrl_send_to_fpga_NoHandler(command_int, outcome) ==
  [cmd |-> command_int,
   outcome |-> outcome,
   bytes |-> IF outcome = "open_failed" THEN <<>>
             ELSE <<Shr(command_int, 8) % 256, command_int % 256>>,
   raised |-> outcome # "ok"]

Ctrl_send_to_fpga(command_int, outcome) ==
  [cmd |-> command_int,
   outcome |-> outcome,
   bytes |-> IF outcome = "open_failed" THEN <<>>
             ELSE <<Shr(command_int, 8) % 256, command_int % 256>>,
   \* except serial.SerialException only
   raised |-> /\ outcome # "ok"
              /\ ~ IsSerialException(ExceptionOf(outcome))]

\* test.py: the port is already open
send_16bit_command(command, outcome) ==
  LET low_byte == command % 256
      high_byte == Shr(command, 8) % 256
  IN [cmd |-> command,
      outcome |-> outcome,
      bytes |-> <<low_byte, high_byte>>,
      raised |-> outcome # "ok"]

(***************************************************************************)
(* The body of the dispatch loops, for one line.  The result is the cart,  *)
(* the sends made (none or one), the last generate_fpga_command result,    *)
(* the branch of the code that ran and whether an exception left the loop. *)
(***************************************************************************)
\* update_order was not called
NoArgs == [food_item |-> <<>>, quantity |-> 0]

Outcome(order, sends, enc, branch, raised) ==
  [order |-> order, sends |-> sends, enc |-> enc, branch |-> branch,
   raised |-> raised, upd |-> NoArgs, warned |-> FALSE]

\* the add/remove branch after its update_order(item, qty) call returned upd;
\* preview is the word display_current_order computes when the call got
\* that far, warned tells whether the "exceeds the max" message was printed
Updated(upd, preview, enc, item, qty, warned) ==
  [order |-> upd.order, sends |-> <<>>,
   enc |-> IF upd.displayed THEN preview ELSE enc,
   branch |-> IF upd.displayed THEN "update" ELSE "invalid_item",
   raised |-> FALSE,
   upd |-> [food_item |-> item, quantity |-> qty],
   warned |-> warned]

\* fault: the request is passed on as written, without warning
App_clamp_request_None(qty) == [quantity |-> qty, warned |-> FALSE]

\* app.py lines 174-177: a request above MAX_QTY is reported and clamped
App_clamp_request(qty) ==
  [quantity |-> IF qty > MAX_QTY THEN MAX_QTY ELSE qty,
   warned |-> qty > MAX_QTY]

\* fault: the controller passes every request on
Ctrl_ignores_Never(qty) == FALSE

\* chat2snack_controller.py lines 76-78: a request above MAX_QTY is reported
\* and the line is skipped
Ctrl_ignores(qty) == qty > MAX_QTY

\* fault: the cart is cleared before the command is encoded
App_dispense_ResetFirst(order, enc, outcome) ==
  LET cleared == [k \in DOMAIN order |-> 0]
      final == App_generate_fpga_command(cleared, TRUE)
      sent == App_send_to_fpga(final.command, outcome)
  IN IF sent.raised
     THEN Outcome(order, <<sent>>, final, "dispense", TRUE)
     ELSE Outcome(cleared, <<sent>>,
                  App_generate_fpga_command(cleared, FALSE),
                  "dispense", FALSE)

\* app.py lines 155-164, the dispense branch: encode, send, then clear and
\* display
App_dispense(order, enc, outcome) ==
  LET final == App_generate_fpga_command(order, TRUE)
      sent == App_send_to_fpga(final.command, outcome)
      cleared == [k \in DOMAIN order |-> 0]
  IN IF sent.raised
     THEN Outcome(order, <<sent>>, final, "dispense", TRUE)
     ELSE Outcome(cleared, <<sent>>,
                  App_generate_fpga_command(cleared, FALSE),
                  "dispense", FALSE)

\* app.py process_llm_response, lines 150-189
App_process_line(order, enc, line, outcome) ==
  LET clean_line == Strip(Strip(line, Whitespace), QuoteChars)
      parts == Split(Lower(clean_line))
  IN IF parts = <<>> THEN Outcome(order, <<>>, enc, "empty", FALSE)
     ELSE LET command == parts[1] IN
       IF command = W_dispense
       THEN App_dispense(order, enc, outcome)
       ELSE IF command \in {W_add, W_remove} /\ Len(parts) = 3
       THEN LET parsed == ParseInt(parts[3]) IN
            IF ~ parsed.ok
            THEN Outcome(order, <<>>, enc, "malformed", FALSE)
            ELSE LET item0 == Lower(parts[2])
                     item == IF item0 = W_icecream THEN W_ice_cream ELSE item0
                     req == App_clamp_request(parsed.val)
                     qty == IF command = W_remove
                            THEN 0 - req.quantity ELSE req.quantity
                     upd == App_update_order(order, item, qty)
                 IN Updated(upd, App_generate_fpga_command(upd.order, FALSE),
                            enc, item, qty, req.warned)
       ELSE Outcome(order, <<>>, enc, "unknown", FALSE)

\* chat2snack_controller.py: a call generate_fpga_command(<keyword>=True);
\* the function has the one parameter dispense_now, any other keyword is a
\* TypeError
Ctrl_call_generate(order, keyword) ==
  IF keyword = "dispense_now"
  THEN [raised |-> FALSE, ret |-> Ctrl_generate_fpga_command(order, TRUE)]
  ELSE [raised |-> TRUE, ret |-> NoEnc]

\* chat2snack_controller.py lines 67-72 and 135-140: the dispense branch,
\* reached with the keyword its call site writes
Ctrl_dispense(order, enc, keyword, outcome) ==
  LET called == Ctrl_call_generate(order, keyword) IN
  IF called.raised
  THEN Outcome(order, <<>>, enc, "dispense", TRUE)
  ELSE LET sent == Ctrl_send_to_fpga(called.ret.command, outcome)
           cleared == [food \in DOMAIN order |-> 0]
       IN IF sent.raised
          THEN Outcome(order, <<sent>>, called.ret, "dispense", TRUE)
          ELSE Outcome(cleared, <<sent>>,
                       Ctrl_generate_fpga_command(cleared, FALSE),
                       "dispense", FALSE)

\* chat2snack_controller.py process_llm_response, lines 63-84
Ctrl_process_line(order, enc, line, outcome) ==
  LET clean_line == Strip(Strip(line, Whitespace), QuoteChars)
      parts == Split(Lower(clean_line))
  IN IF parts = <<>> THEN Outcome(order, <<>>, enc, "empty", FALSE)
     ELSE LET command == parts[1] IN
       IF command = W_dispense
       THEN Ctrl_dispense(order, enc, "dis1pense_now", outcome)
       ELSE IF command \in {W_add, W_remove} /\ Len(parts) = 3
       THEN LET parsed == ParseInt(parts[3]) IN
            IF ~ parsed.ok
            THEN Outcome(order, <<>>, enc, "malformed", FALSE)
            ELSE IF Ctrl_ignores(parsed.val)
            THEN [Outcome(order, <<>>, enc, "ignored", FALSE)
                    EXCEPT !.warned = TRUE]
            ELSE LET item == Lower(parts[2])
                     qty == IF command = W_remove
                            THEN 0 - parsed.val ELSE parsed.val
                     upd == Ctrl_update_order(order, item, qty)
                 IN Updated(upd, Ctrl_generate_fpga_command(upd.order, FALSE),
                            enc, item, qty, FALSE)
       ELSE Outcome(order, <<>>, enc, "unknown", FALSE)

\* chat2snack_controller.py main_cli, lines 130-149: one input() line
Cli_process_line(order, enc, line, outcome) ==
  LET user_input == Strip(Lower(line), Whitespace)
      parts == Split(user_input)
  IN IF parts = <<>> THEN Outcome(order, <<>>, enc, "empty", FALSE)
     ELSE LET command == parts[1] IN
       IF command = W_exit THEN Outcome(order, <<>>, enc, "exit", FALSE)
       ELSE IF command = W_dispense
       THEN Ctrl_dispense(order, enc, "dispense_now", outcome)
       ELSE IF command \in {W_add, W_remove} /\ Len(parts) = 3
       THEN LET parsed == ParseInt(parts[3]) IN
            IF ~ parsed.ok
            THEN Outcome(order, <<>>, enc, "malformed", FALSE)
            ELSE LET item == Lower(parts[2])
                     qty == IF command = W_remove
                            THEN 0 - parsed.val ELSE parsed.val
                     upd == Ctrl_update_order(order, item, qty)
                 IN Updated(upd, Ctrl_generate_fpga_command(upd.order, FALSE),
                            enc, item, qty, FALSE)
       ELSE Outcome(order, <<>>, enc, "unknown", FALSE)

(***************************************************************************)
(* The lines a block is drawn from: the spec's scenarios and one line for  *)
(* each branch of the loops.                                               *)
(***************************************************************************)
\* 'add soda 2'
L_add_soda_2 ==
  <<"a","d","d"," ","s","o","d","a"," ","2">>

\* 'dispense'
L_dispense ==
  <<"d","i","s","p","e","n","s","e">>

\* 'add soda 1'
L_add_soda_1 ==
  <<"a","d","d"," ","s","o","d","a"," ","1">>

\* 'Add Pizza 2'
L_Add_Pizza_2 ==
  <<"A","d","d"," ","P","i","z","z","a"," ","2">>

\* 'add burger 5'
L_add_burger_5 ==
  <<"a","d","d"," ","b","u","r","g","e","r"," ","5">>

\* 'add burger 10'
L_add_burger_10 ==
  <<"a","d","d"," ","b","u","r","g","e","r"," ","1","0">>

\* 'remove burger 10'
L_remove_burger_10 ==
  <<"r","e","m","o","v","e"," ","b","u","r","g","e","r"," ","1","0">>

\* 'add burger -3'
L_add_burger_neg3 ==
  <<"a","d","d"," ","b","u","r","g","e","r"," ","-","3">>

\* 'add icecream 3'
L_add_icecream_3 ==
  <<"a","d","d"," ","i","c","e","c","r","e","a","m"," ","3">>

\* 'add ice_cream 3'
L_add_ice_cream_3 ==
  <<"a","d","d"," ","i","c","e","_","c","r","e","a","m"," ","3">>

\* 'remove icecream 1'
L_remove_icecream_1 ==
  <<"r","e","m","o","v","e"," ","i","c","e","c","r","e","a","m"," ","1">>

\* 'remove ice_cream 1'
L_remove_ice_cream_1 ==
  <<"r","e","m","o","v","e"," ","i","c","e","_","c","r","e","a","m"," ","1">>

\* 'remove fries 1'
L_remove_fries_1 ==
  <<"r","e","m","o","v","e"," ","f","r","i","e","s"," ","1">>

\* 'add burger 0'
L_add_burger_0 ==
  <<"a","d","d"," ","b","u","r","g","e","r"," ","0">>

\* 'add fries 0'
L_add_fries_0 ==
  <<"a","d","d"," ","f","r","i","e","s"," ","0">>

\* 'banana 5'
L_banana_5 ==
  <<"b","a","n","a","n","a"," ","5">>

\* 'add pizza two'
L_add_pizza_two ==
  <<"a","d","d"," ","p","i","z","z","a"," ","t","w","o">>

\* 'add pizza'
L_add_pizza ==
  <<"a","d","d"," ","p","i","z","z","a">>

\* 'add banana 2'
L_add_banana_2 ==
  <<"a","d","d"," ","b","a","n","a","n","a"," ","2">>

\* 'dispense now'
L_dispense_now ==
  <<"d","i","s","p","e","n","s","e"," ","n","o","w">>

\* "  'DISPENSE' "
L_quoted_DISPENSE ==
  <<" "," ","'","D","I","S","P","E","N","S","E","'"," ">>

\* '   '
L_blank ==
  <<" "," "," ">>

\* 'exit'
L_exit ==
  <<"e","x","i","t">>

InputLines ==
  {L_add_soda_2,
   L_dispense,
   L_add_soda_1,
   L_Add_Pizza_2,
   L_add_burger_5,
   L_add_burger_10,
   L_remove_burger_10,
   L_add_burger_neg3,
   L_add_icecream_3,
   L_add_ice_cream_3,
   L_remove_icecream_1,
   L_remove_ice_cream_1,
   L_remove_fries_1,
   L_add_fries_0,
   L_add_burger_0,
   L_banana_5,
   L_add_pizza_two,
   L_add_pizza,
   L_add_banana_2,
   L_dispense_now,
   L_quoted_DISPENSE,
   L_blank,
   L_exit}

(***************************************************************************)
(* State.                                                                  *)
(***************************************************************************)
VARIABLES
  variant,    \* which program runs: "app", "ctrl", "cli", "test", "enc"
  order,      \* current_order: the cart
  nlines,     \* number of lines of the instruction block
  pc,         \* number of lines the loop has taken from the block
  status,     \* "init", "idle", "running", "done", "exit", "raised"
  calls,      \* the sends made so far: command word, bytes written, outcome
  lastEnc,    \* what the last generate_fpga_command call returned
  line,       \* the line taken last
  branch,     \* the branch of the loop body that line ran
  prevOrder,  \* the cart before that line
  lastSends,  \* the sends made by that line
  updArgs,    \* the arguments of that line's update_order call, or NoArgs
  warned,     \* that line printed the "exceeds the max" message
  messages,   \* the chat history: role and turn of its messages, in order
  turns       \* number of chat turns begun

vars ==
  <<variant, order, nlines, pc, status, calls, lastEnc, line, branch,
    prevOrder, lastSends, updArgs, warned, messages, turns>>

\* the system prompt, first message of every history
SystemMessage == [role |-> "system", turn |-> 0]

TestCommands == <<CLEAR_COMMAND, ACTUAL_COMMAND_TO_RUN>>

\* session start of the three dispatch loops; the controller displays the
\* empty cart (and so computes a preview) before its first input
LoopInit ==
  /\ variant \in {"app", "ctrl", "cli"}
  /\ order = EmptyOrder
  /\ nlines \in 1..MaxBlockLen
  /\ pc = 0
  /\ status = "running"
  /\ calls = <<>>
  /\ lastEnc = IF variant = "app" THEN NoEnc
               ELSE Ctrl_generate_fpga_command(EmptyOrder, FALSE)
  /\ line = <<>>
  /\ branch = "none"
  /\ prevOrder = EmptyOrder
  /\ lastSends = <<>>
  /\ updArgs = NoArgs
  /\ warned = FALSE
  /\ messages = <<SystemMessage>>
  /\ turns = 0

\* test.py before its main block
TestInit ==
  /\ variant = "test"
  /\ order = EmptyOrder
  /\ nlines = Len(TestCommands)
  /\ pc = 0
  /\ status = "init"
  /\ calls = <<>>
  /\ lastEnc = NoEnc
  /\ line = <<>>
  /\ branch = "none"
  /\ prevOrder = EmptyOrder
  /\ lastSends = <<>>
  /\ updArgs = NoArgs
  /\ warned = FALSE
  /\ messages = <<SystemMessage>>
  /\ turns = 0

Init == LoopInit \/ TestInit

\* the effect of one iteration of a loop body on the state
Apply(l, r) ==
  /\ order' = r.order
  /\ calls' = calls \o r.sends
  /\ lastEnc' = r.enc
  /\ line' = l
  /\ branch' = r.branch
  /\ prevOrder' = order
  /\ lastSends' = r.sends
  /\ updArgs' = r.upd
  /\ warned' = r.warned
  /\ pc' = pc + 1
  /\ status' = IF r.raised THEN "raised"
               ELSE IF r.branch = "exit" THEN "exit"
               ELSE "running"
  /\ UNCHANGED <<variant, nlines, messages, turns>>

\* app.py: one iteration of `for line in commands`
AppProcessLine ==
  /\ variant = "app" /\ status = "running" /\ pc < nlines
  /\ \E l \in InputLines, o \in TransportOutcomes :
       Apply(l, App_process_line(order, lastEnc, l, o))

\* chat2snack_controller.py: one iteration of process_llm_response's loop
CtrlProcessLine ==
  /\ variant = "ctrl" /\ status = "running" /\ pc < nlines
  /\ \E l \in InputLines, o \in TransportOutcomes :
       Apply(l, Ctrl_process_line(order, lastEnc, l, o))

\* chat2snack_controller.py: one iteration of main_cli's loop
CliProcessLine ==
  /\ variant = "cli" /\ status = "running" /\ pc < nlines
  /\ \E l \in InputLines, o \in TransportOutcomes :
       Apply(l, Cli_process_line(order, lastEnc, l, o))

\* the block is exhausted: the loop ends
Finish ==
  /\ variant \in {"app", "ctrl", "cli", "test"}
  /\ status = "running" /\ pc = nlines
  /\ status' = "done"
  /\ UNCHANGED <<variant, order, nlines, pc, calls, lastEnc, line, branch,
                 prevOrder, lastSends, updArgs, warned, messages, turns>>

\* test.py: serial.Serial(...) opens the port or raises SerialException
TestOpen ==
  /\ variant = "test" /\ status = "init"
  /\ \E opened \in BOOLEAN : status' = IF opened THEN "running" ELSE "done"
  /\ UNCHANGED <<variant, order, nlines, pc, calls, lastEnc, line, branch,
                 prevOrder, lastSends, updArgs, warned, messages, turns>>

\* test.py: the CLEAR command, then the ACTUAL command; a failed write is
\* caught by the except clauses and ends the script
TestSend ==
  /\ variant = "test" /\ status = "running" /\ pc < nlines
  /\ \E o \in TransportOutcomes \ {"open_failed"} :
       LET sent == send_16bit_command(TestCommands[pc + 1], o) IN
       /\ calls' = Append(calls, sent)
       /\ lastSends' = <<sent>>
       /\ status' = IF sent.raised THEN "done" ELSE "running"
  /\ pc' = pc + 1
  /\ UNCHANGED <<variant, order, nlines, lastEnc, line, branch, prevOrder,
                 updArgs, warned, messages, turns>>

Next ==
  \/ AppProcessLine
  \/ CtrlProcessLine
  \/ CliProcessLine
  \/ Finish
  \/ TestOpen
  \/ TestSend

Spec == Init /\ [][Next]_vars

(***************************************************************************)
(* The encoder on its own: every cart with quantities in 0..MAX_QTY, and   *)
(* the two generate_fpga_command implementations applied to it.            *)
(***************************************************************************)
EncInit ==
  /\ variant = "enc"
  /\ order \in [Items -> 0..MAX_QTY]
  /\ nlines = 0
  /\ pc = 0
  /\ status = "running"
  /\ calls = <<>>
  /\ lastEnc = NoEnc
  /\ line = <<>>
  /\ branch = "none"
  /\ prevOrder = order
  /\ lastSends = <<>>
  /\ updArgs = NoArgs
  /\ warned = FALSE
  /\ messages = <<SystemMessage>>
  /\ turns = 0

AppEncode ==
  /\ variant = "enc"
  /\ \E d \in BOOLEAN : lastEnc' = App_generate_fpga_command(order, d)
  /\ branch' = "app"
  /\ UNCHANGED <<variant, order, nlines, pc, status, calls, line, prevOrder,
                 lastSends, updArgs, warned, messages, turns>>

CtrlEncode ==
  /\ variant = "enc"
  /\ \E d \in BOOLEAN : lastEnc' = Ctrl_generate_fpga_command(order, d)
  /\ branch' = "ctrl"
  /\ UNCHANGED <<variant, order, nlines, pc, status, calls, line, prevOrder,
                 lastSends, updArgs, warned, messages, turns>>

EncNext == AppEncode \/ CtrlEncode

SpecEnc == EncInit /\ [][EncNext]_vars

(***************************************************************************)
(* The mutator on its own: update_order of either file called once, with   *)
(* any item name the loops can pass and any delta up to MaxDelta, on a     *)
(* cart with at most MaxNonZero items in it.                                *)
(***************************************************************************)
UpdItems == Items \cup {W_icecream}

UpdInit ==
  /\ variant = "upd"
  /\ order \in {c \in [Items -> 0..MAX_QTY] :
                 Cardinality({f \in Items : c[f] # 0}) <= MaxNonZero}
  /\ nlines = 1
  /\ pc = 0
  /\ status = "running"
  /\ calls = <<>>
  /\ lastEnc = NoEnc
  /\ line = <<>>
  /\ branch = "none"
  /\ prevOrder = order
  /\ lastSends = <<>>
  /\ updArgs = NoArgs
  /\ warned = FALSE
  /\ messages = <<SystemMessage>>
  /\ turns = 0

\* app.py: update_order(food_item, quantity), display included
AppUpdate ==
  /\ variant = "upd" /\ pc = 0
  /\ \E food_item \in UpdItems, quantity \in (0 - MaxDelta)..MaxDelta :
       LET upd == App_update_order(order, food_item, quantity) IN
       /\ order' = upd.order
       /\ lastEnc' = IF upd.displayed
                     THEN App_generate_fpga_command(upd.order, FALSE)
                     ELSE lastEnc
       /\ updArgs' = [food_item |-> food_item, quantity |-> quantity]
  /\ prevOrder' = order
  /\ branch' = "app"
  /\ pc' = 1
  /\ UNCHANGED <<variant, nlines, status, calls, line, lastSends, warned,
                 messages, turns>>

\* chat2snack_controller.py: update_order(food_item, quantity), display
\* included
CtrlUpdate ==
  /\ variant = "upd" /\ pc = 0
  /\ \E food_item \in UpdItems, quantity \in (0 - MaxDelta)..MaxDelta :
       LET upd == Ctrl_update_order(order, food_item, quantity) IN
       /\ order' = upd.order
       /\ lastEnc' = IF upd.displayed
                     THEN Ctrl_generate_fpga_command(upd.order, FALSE)
                     ELSE lastEnc
       /\ updArgs' = [food_item |-> food_item, quantity |-> quantity]
  /\ prevOrder' = order
  /\ branch' = "ctrl"
  /\ pc' = 1
  /\ UNCHANGED <<variant, nlines, status, calls, line, lastSends, warned,
                 messages, turns>>

UpdNext == AppUpdate \/ CtrlUpdate

SpecUpd == UpdInit /\ [][UpdNext]_vars

(***************************************************************************)
(* The chat sessions: app.py's chat input block and the controller's       *)
(* main_ai_mode.  A turn appends the user message, asks the model, runs    *)
(* the dispatch loop over the reply and keeps the history; the cart lives  *)
(* on from turn to turn.                                                    *)
(***************************************************************************)
ChatVariants == {"app", "ctrl"}

Pop(msgs) == SubSeq(msgs, 1, Len(msgs) - 1)

\* app.py lines 314-318: the handler drops the last message if it is the
\* user's
App_on_error(msgs) ==
  IF msgs[Len(msgs)].role = "user" THEN Pop(msgs) ELSE msgs

\* chat2snack_controller.py lines 119-121: the handler drops the last message
Ctrl_on_error(msgs) == Pop(msgs)

ChatInit ==
  /\ variant \in ChatVariants
  /\ order = EmptyOrder
  /\ nlines = 0
  /\ pc = 0
  /\ status = "idle"
  /\ calls = <<>>
  /\ lastEnc = IF variant = "app" THEN NoEnc
               ELSE Ctrl_generate_fpga_command(EmptyOrder, FALSE)
  /\ line = <<>>
  /\ branch = "none"
  /\ prevOrder = EmptyOrder
  /\ lastSends = <<>>
  /\ updArgs = NoArgs
  /\ warned = FALSE
  /\ messages = <<SystemMessage>>
  /\ turns = 0

\* app.py lines 272-289: the user message is appended and the model asked;
\* the call raises, or returns a reply of some lines
AppAsk ==
  /\ variant = "app" /\ status = "idle" /\ turns < MaxTurns
  /\ turns' = turns + 1
  /\ LET asked == Append(messages, [role |-> "user", turn |-> turns + 1]) IN
     \E inference_failed \in BOOLEAN :
       IF inference_failed
       THEN /\ messages' = App_on_error(asked)
            /\ UNCHANGED <<status, nlines, pc>>
       ELSE /\ messages' = asked
            /\ status' = "running"
            /\ nlines' \in 1..MaxReplyLen
            /\ pc' = 0
  /\ UNCHANGED <<variant, order, calls, lastEnc, line, branch, prevOrder,
                 lastSends, updArgs, warned>>

\* app.py lines 299-318: process_llm_response returned and the assistant
\* message is appended, or it raised and the handler ran
AppTurnEnd ==
  /\ variant = "app"
  /\ \/ status = "running" /\ pc = nlines
     \/ status = "raised"
  /\ messages' = IF status = "raised"
                  THEN App_on_error(messages)
                  ELSE Append(messages, [role |-> "assistant", turn |-> turns])
  /\ status' = "idle"
  /\ UNCHANGED <<variant, order, nlines, pc, calls, lastEnc, line, branch,
                 prevOrder, lastSends, updArgs, warned, turns>>

\* chat2snack_controller.py lines 109-117: the user message is appended and
\* the model asked; the call raises, or the reply is appended to the history
\* before it is processed
CtrlAsk ==
  /\ variant = "ctrl" /\ status = "idle" /\ turns < MaxTurns
  /\ turns' = turns + 1
  /\ LET asked == Append(messages, [role |-> "user", turn |-> turns + 1]) IN
     \E inference_failed \in BOOLEAN :
       IF inference_failed
       THEN /\ messages' = Ctrl_on_error(asked)
            /\ UNCHANGED <<status, nlines, pc>>
       ELSE /\ messages' =
                 Append(asked, [role |-> "assistant", turn |-> turns + 1])
            /\ status' = "running"
            /\ nlines' \in 1..MaxReplyLen
            /\ pc' = 0
  /\ UNCHANGED <<variant, order, calls, lastEnc, line, branch, prevOrder,
                 lastSends, updArgs, warned>>

\* chat2snack_controller.py lines 118-121: process_llm_response returned, or
\* it raised and the handler ran
CtrlTurnEnd ==
  /\ variant = "ctrl"
  /\ \/ status = "running" /\ pc = nlines
     \/ status = "raised"
  /\ messages' = IF status = "raised" THEN Ctrl_on_error(messages)
                  ELSE messages
  /\ status' = "idle"
  /\ UNCHANGED <<variant, order, nlines, pc, calls, lastEnc, line, branch,
                 prevOrder, lastSends, updArgs, warned, turns>>

ChatNext ==
  \/ AppAsk
  \/ AppProcessLine
  \/ AppTurnEnd
  \/ CtrlAsk
  \/ CtrlProcessLine
  \/ CtrlTurnEnd

SpecChat == ChatInit /\ [][ChatNext]_vars

TypeOK ==
  /\ variant \in {"app", "ctrl", "cli", "test", "enc", "upd"}
  /\ DOMAIN order = Items
  /\ pc \in 0..nlines
  /\ status \in {"init", "idle", "running", "done", "exit", "raised"}

(***************************************************************************)
(* Vocabulary of the properties, from the specification's data model and   *)
(* grammar (not from the code).                                            *)
(***************************************************************************)
\* the three loops that read command lines
Loops == {"app", "ctrl", "cli"}

\* the two process_llm_response variants
DispatchLoops == {"app", "ctrl"}

\* the fixed bit layout of the command word
FieldOf(word, offset, width) == (word \div Pow2(offset)) % Pow2(width)

\* the command word the layout prescribes for a cart, GO bit set
GoWord(cart) ==
  cart[W_burger] + 8 * cart[W_fries] + 64 * cart[W_soda]
  + 512 * cart[W_ice_cream] + 4096 * cart[W_pizza] + 32768

\* the grammar's tokens of a raw line
TokensOf(l) == Split(Lower(Strip(Strip(l, Whitespace), QuoteChars)))

\* a line the grammar classifies as invalid
IsInvalidLine(l) ==
  LET t == TokensOf(l) IN
  /\ t # <<>>
  /\ \/ t[1] \notin {W_add, W_remove, W_dispense}
     \/ /\ t[1] \in {W_add, W_remove}
        /\ \/ Len(t) # 3
           \/ ~ ParseInt(t[3]).ok
           \/ t[2] \notin Items \cup {W_icecream}

\* the loop was neither left by an exception nor broken out of: it goes on
\* with the next line, or has ended because the block is exhausted
LoopGoesOn == status \in {"running", "done"}

\* a line has been taken from the block
Taken == pc > 0 /\ variant \in Loops

(***************************************************************************)
(* C1: in every reachable state of the three loops, whatever add, remove,  *)
(* dispense and invalid lines were processed, every quantity of the cart   *)
(* is within 0..7.                                                          *)
(***************************************************************************)
C1_QuantitiesInRange ==
  variant \in Loops =>
    \A f \in DOMAIN order : order[f] \in 0..MAX_QTY

\* a request above 7 was applied to a cart holding 5 and the item stands at 7
C1_Witness ==
  /\ variant = "app"
  /\ line = L_add_burger_10
  /\ prevOrder[W_burger] = 5
  /\ order[W_burger] = 7

(***************************************************************************)
(* C2: every sender writes the low byte of the command word first and the  *)
(* high byte second, so that second * 256 + first is the command word.     *)
(***************************************************************************)
C2_LowByteFirst ==
  \A i \in 1..Len(calls) :
    calls[i].bytes # <<>> =>
      /\ calls[i].bytes[1] = calls[i].cmd % 256
      /\ calls[i].bytes[2] = (calls[i].cmd \div 256) % 256
      /\ calls[i].bytes[2] * 256 + calls[i].bytes[1] = calls[i].cmd

(***************************************************************************)
(* C3: for every cart with quantities in 0..7, the word returned by        *)
(* generate_fpga_command(dispense_now=False) holds burger in bits 0-2,     *)
(* fries in bits 3-5, soda in bits 6-8, ice_cream in bits 9-11, pizza in   *)
(* bits 12-14, and bit 15 is 0.                                             *)
(***************************************************************************)
C3_PreviewDecodes ==
  (variant = "enc" /\ lastEnc # NoEnc /\ ~ lastEnc.dispense_now) =>
    /\ FieldOf(lastEnc.command, 0, 3) = order[W_burger]
    /\ FieldOf(lastEnc.command, 3, 3) = order[W_fries]
    /\ FieldOf(lastEnc.command, 6, 3) = order[W_soda]
    /\ FieldOf(lastEnc.command, 9, 3) = order[W_ice_cream]
    /\ FieldOf(lastEnc.command, 12, 3) = order[W_pizza]
    /\ FieldOf(lastEnc.command, 15, 1) = 0
    /\ lastEnc.command < Pow2(15)

\* a preview word was computed for a cart with five different quantities
C3_Witness ==
  /\ variant = "enc" /\ branch = "app"
  /\ lastEnc # NoEnc /\ ~ lastEnc.dispense_now
  /\ order[W_burger] = 1 /\ order[W_fries] = 2 /\ order[W_soda] = 3
  /\ order[W_ice_cream] = 4 /\ order[W_pizza] = 7

(***************************************************************************)
(* C4: for every cart, generate_fpga_command(dispense_now=True) has bit 15 *)
(* set, has bits 0-14 equal to those of the dispense_now=False word of the *)
(* same cart, and fits in 16 bits.                                          *)
(***************************************************************************)
C4_GoBitOnly ==
  (variant = "enc" /\ lastEnc # NoEnc /\ lastEnc.dispense_now) =>
    LET preview == IF branch = "app"
                   THEN App_generate_fpga_command(order, FALSE)
                   ELSE Ctrl_generate_fpga_command(order, FALSE)
    IN /\ FieldOf(lastEnc.command, 15, 1) = 1
       /\ lastEnc.command % Pow2(15) = preview.command
       /\ lastEnc.command < Pow2(16)

\* a GO word was computed for a cart whose pizza field reaches bit 14
C4_Witness ==
  /\ variant = "enc" /\ branch = "app"
  /\ lastEnc # NoEnc /\ lastEnc.dispense_now
  /\ order[W_pizza] = 7 /\ order[W_burger] = 1

(***************************************************************************)
(* C5: whenever a line hands a command word to the transport, the word is  *)
(* the GO encoding of the cart as it stood before that line; in app.py's   *)
(* loop and in main_cli every dispense line hands exactly one such word    *)
(* (controller's process_llm_response never reaches the transport).        *)
(***************************************************************************)
C5_SendsCartBeforeReset ==
  Taken =>
    /\ \A i \in 1..Len(lastSends) : lastSends[i].cmd = GoWord(prevOrder)
    /\ (branch = "dispense" /\ variant \in {"app", "cli"}) =>
         /\ Len(lastSends) = 1
         /\ calls # <<>>
         /\ calls[Len(calls)] = lastSends[1]

\* the block add soda 2 / dispense / add soda 1 has run in app.py: the one
\* word sent encodes soda = 2 and the cart holds soda = 1
C5_Witness ==
  /\ variant = "app" /\ pc = 3
  /\ line = L_add_soda_1
  /\ Len(calls) = 1
  /\ calls[1].cmd = 32768 + 2 * 64
  /\ order = [EmptyOrder EXCEPT ![W_soda] = 1]

(***************************************************************************)
(* C6: in both process_llm_response variants, a dispense line leaves every *)
(* quantity at 0 and the loop goes on with the lines that follow.          *)
(***************************************************************************)
C6_DispenseClearsAndContinues ==
  (Taken /\ variant \in DispatchLoops /\ TokensOf(line) = <<W_dispense>>) =>
    /\ \A f \in DOMAIN order : order[f] = 0
    /\ LoopGoesOn

(***************************************************************************)
(* C7: in both process_llm_response variants, a line the grammar           *)
(* classifies as invalid (unrecognized leading token, add/remove without   *)
(* exactly three tokens, non-integer quantity, item outside the five       *)
(* identifiers) leaves the cart unchanged, sends nothing and leaves the    *)
(* loop running for the lines that follow.                                 *)
(***************************************************************************)
C7_InvalidLineIsSkipped ==
  (Taken /\ variant \in DispatchLoops /\ IsInvalidLine(line)) =>
    /\ order = prevOrder
    /\ lastSends = <<>>
    /\ LoopGoesOn

\* an add naming an unknown item was met on a non-empty cart, with a line
\* still to come
C7_Witness ==
  /\ variant = "app"
  /\ line = L_add_banana_2
  /\ order[W_soda] = 2
  /\ status = "running" /\ pc < nlines

(***************************************************************************)
(* C8: when the send of a dispense fails (port not opened, write raising   *)
(* or timing out), the cart is all-zero after the line and the loop is     *)
(* still running.                                                           *)
(***************************************************************************)
C8_TransportFailureAbsorbed ==
  (Taken /\ lastSends # <<>> /\ lastSends[1].outcome # "ok") =>
    /\ \A f \in DOMAIN order : order[f] = 0
    /\ LoopGoesOn

\* a write timed out in main_cli on a non-empty cart, with a line to come
C8_Witness ==
  /\ variant = "cli"
  /\ lastSends # <<>> /\ lastSends[1].outcome = "write_timeout"
  /\ prevOrder[W_soda] = 2
  /\ order = EmptyOrder
  /\ status = "running" /\ pc < nlines

(***************************************************************************)
(* C9: a line whose first token is dispense but that has further tokens    *)
(* sends nothing and does not change the cart.                              *)
(***************************************************************************)
C9_DispenseIsOneToken ==
  (Taken /\ Len(TokensOf(line)) > 1 /\ TokensOf(line)[1] = W_dispense) =>
    /\ lastSends = <<>>
    /\ order = prevOrder

(***************************************************************************)
(* C10: in both process_llm_response variants, add icecream 3 and          *)
(* remove icecream 1 change the cart exactly as the same lines written     *)
(* with ice_cream do: ice_cream becomes min(7, old + 3), resp.             *)
(* max(0, old - 1), the other quantities stay.                              *)
(***************************************************************************)
C10_AliasSameEffect ==
  (Taken /\ variant \in DispatchLoops) =>
    /\ line = L_add_icecream_3 =>
         order = [prevOrder EXCEPT ![W_ice_cream] =
                    IF @ + 3 > 7 THEN 7 ELSE @ + 3]
    /\ line = L_remove_icecream_1 =>
         order = [prevOrder EXCEPT ![W_ice_cream] =
                    IF @ - 1 < 0 THEN 0 ELSE @ - 1]

(***************************************************************************)
(* C11: for the cart {pizza: 2, soda: 1, others 0}, the GO encoding has    *)
(* the 16-character binary string 1010000001000000 (bit 15, bit 13 for     *)
(* pizza = 2, bit 6 for soda = 1).                                          *)
(***************************************************************************)
PizzaTwoSodaOne == [EmptyOrder EXCEPT ![W_pizza] = 2, ![W_soda] = 1]

C11_BinaryString ==
  (variant = "enc" /\ order = PizzaTwoSodaOne
   /\ lastEnc # NoEnc /\ lastEnc.dispense_now) =>
    /\ lastEnc.binary =
         <<"1","0","1","0","0","0","0","0","0","1","0","0","0","0","0","0">>
    /\ Len(lastEnc.binary) = 16
    /\ lastEnc.command = 41024

\* the GO encoding of that cart was computed by app.py's encoder
C11_Witness ==
  /\ variant = "enc" /\ branch = "app"
  /\ order = PizzaTwoSodaOne
  /\ lastEnc # NoEnc /\ lastEnc.dispense_now

\* C11 as first stated: the binary string is 1000001001000000
C11_BinaryStringAsStated ==
  (variant = "enc" /\ order = PizzaTwoSodaOne
   /\ lastEnc # NoEnc /\ lastEnc.dispense_now) =>
    lastEnc.binary =
      <<"1","0","0","0","0","0","1","0","0","1","0","0","0","0","0","0">>

(***************************************************************************)
(* C12: update_order(item, delta) on a known item sets that item to        *)
(* min(7, max(0, old + delta)) and leaves the other four quantities        *)
(* unchanged (both files, every delta within MaxDelta).                    *)
(***************************************************************************)
ClampQty(n) == IF n > 7 THEN 7 ELSE IF n < 0 THEN 0 ELSE n

C12_UpdateClamps ==
  (variant = "upd" /\ pc = 1 /\ updArgs.food_item \in Items) =>
    /\ order[updArgs.food_item] =
         ClampQty(prevOrder[updArgs.food_item] + updArgs.quantity)
    /\ \A f \in Items \ {updArgs.food_item} : order[f] = prevOrder[f]
    /\ DOMAIN order = Items

\* the controller's update_order took 2 with -10 to 0 beside a soda of 3
C12_Witness ==
  /\ variant = "upd" /\ pc = 1 /\ branch = "ctrl"
  /\ updArgs = [food_item |-> W_burger, quantity |-> 0 - 10]
  /\ prevOrder[W_burger] = 2 /\ prevOrder[W_soda] = 3
  /\ order[W_burger] = 0 /\ order[W_soda] = 3

(***************************************************************************)
(* C13: a line add <item> 0 for a known item never changes the cart (and   *)
(* sends nothing), from any reachable cart, in all three loops.            *)
(***************************************************************************)
IsAddZero(l) ==
  LET t == TokensOf(l) IN
  Len(t) = 3 /\ t[1] = W_add /\ t[2] \in Items /\ t[3] = <<"0">>

C13_AddZeroIsNoOp ==
  (Taken /\ IsAddZero(line)) =>
    /\ order = prevOrder
    /\ lastSends = <<>>

\* add burger 0 was processed on a cart holding 5 burgers
C13_Witness ==
  /\ variant = "app"
  /\ line = L_add_burger_0
  /\ updArgs = [food_item |-> W_burger, quantity |-> 0]
  /\ prevOrder[W_burger] = 5
  /\ order[W_burger] = 5

(***************************************************************************)
(* C14: in both process_llm_response variants no line makes the loop       *)
(* raise, the loop ends only after the last line of the block, and an      *)
(* empty line produces no operation.                                        *)
(***************************************************************************)
C14_LoopRunsToCompletion ==
  variant \in DispatchLoops =>
    /\ status # "raised"
    /\ status = "done" => pc = nlines
    /\ (Taken /\ TokensOf(line) = <<>>) =>
         /\ order = prevOrder
         /\ lastSends = <<>>
         /\ updArgs = NoArgs

(***************************************************************************)
(* C15: for every integer quantity token the parser accepts, a line        *)
(* add <item> <qty> lowers no quantity and a line remove <item> <qty>      *)
(* raises none.                                                             *)
(***************************************************************************)
C15_AddNeverLowers ==
  Taken =>
    LET t == TokensOf(line) IN
    (Len(t) = 3 /\ t[1] \in {W_add, W_remove} /\ ParseInt(t[3]).ok) =>
      /\ t[1] = W_add => \A f \in Items : order[f] >= prevOrder[f]
      /\ t[1] = W_remove => \A f \in Items : order[f] =< prevOrder[f]

(***************************************************************************)
(* C16: in app.py's loop an add/remove line for a known item with a        *)
(* quantity above 7 is not dropped: the warning is printed, update_order   *)
(* is called with the request clamped to 7, and the item ends at 7 after   *)
(* an add and at 0 after a remove, whatever it was before.                 *)
(***************************************************************************)
\* the item a line names, with the icecream alias resolved
ItemNamed(t) == IF t[2] = W_icecream THEN W_ice_cream ELSE t[2]

IsOverMax(l) ==
  LET t == TokensOf(l) IN
  /\ Len(t) = 3 /\ t[1] \in {W_add, W_remove}
  /\ ParseInt(t[3]).ok /\ ParseInt(t[3]).val > 7

C16_AppClampsRequest ==
  (Taken /\ variant = "app" /\ IsOverMax(line)
   /\ ItemNamed(TokensOf(line)) \in Items) =>
    LET t == TokensOf(line)
        item == ItemNamed(t)
    IN /\ warned
       /\ updArgs = [food_item |-> item,
                     quantity |-> IF t[1] = W_add THEN 7 ELSE 0 - 7]
       /\ order = [prevOrder EXCEPT ![item] = IF t[1] = W_add THEN 7 ELSE 0]

\* remove burger 10 was processed by app.py on a cart holding 5 burgers
C16_Witness ==
  /\ variant = "app"
  /\ line = L_remove_burger_10
  /\ warned
  /\ prevOrder[W_burger] = 5
  /\ order[W_burger] = 0

(***************************************************************************)
(* C17: in the controller's process_llm_response an add/remove line with a *)
(* quantity above 7 is ignored: update_order is not called, the cart is    *)
(* unchanged, nothing is sent and the loop goes on.                         *)
(***************************************************************************)
C17_CtrlIgnoresRequest ==
  (Taken /\ variant = "ctrl" /\ IsOverMax(line)) =>
    /\ order = prevOrder
    /\ updArgs = NoArgs
    /\ lastSends = <<>>
    /\ LoopGoesOn

\* add burger 10 was met by the controller on a cart holding 5 burgers, with
\* a line still to come
C17_Witness ==
  /\ variant = "ctrl"
  /\ line = L_add_burger_10
  /\ prevOrder[W_burger] = 5
  /\ order[W_burger] = 5
  /\ status = "running" /\ pc < nlines

(***************************************************************************)
(* C18: in app.py's loop the transport is invoked exactly once by a        *)
(* dispense line and not at all by an add, remove or invalid line, and     *)
(* every word it receives has bit 15 set (no preview word is sent).        *)
(***************************************************************************)
C18_OneSendPerDispense ==
  (Taken /\ variant = "app") =>
    /\ TokensOf(line) = <<W_dispense>> => Len(lastSends) = 1
    /\ TokensOf(line) # <<W_dispense>> => lastSends = <<>>
    /\ \A i \in 1..Len(calls) :
         /\ FieldOf(calls[i].cmd, 15, 1) = 1
         /\ calls[i].cmd >= Pow2(15)

(***************************************************************************)
(* C19: in every reachable state of the three loops the cart holds exactly *)
(* the five keys burger, fries, soda, ice_cream and pizza.                  *)
(***************************************************************************)
C19_FiveKeys ==
  variant \in Loops =>
    /\ DOMAIN order = {W_burger, W_fries, W_soda, W_ice_cream, W_pizza}
    /\ DOMAIN prevOrder = {W_burger, W_fries, W_soda, W_ice_cream, W_pizza}

\* main_cli met an add naming an unknown item after a dispense had reset the
\* cart
C19_Witness ==
  /\ variant = "cli"
  /\ line = L_add_banana_2
  /\ branch = "invalid_item"
  /\ calls # <<>>

(***************************************************************************)
(* C20: after every completed chat turn, failed or not, the history is the *)
(* system prompt followed only by complete pairs: a user message and the   *)
(* assistant reply of the same turn.                                        *)
(***************************************************************************)
WellPaired(msgs) ==
  /\ msgs # <<>>
  /\ msgs[1] = SystemMessage
  /\ Len(msgs) % 2 = 1
  /\ \A i \in 2..Len(msgs) :
       IF i % 2 = 0
       THEN msgs[i].role = "user"
       ELSE msgs[i].role = "assistant" /\ msgs[i].turn = msgs[i - 1].turn

C20_HistoryWellPaired ==
  (variant \in ChatVariants /\ status = "idle") => WellPaired(messages)

====
